---- MODULE Spec2Model ----
(***************************************************************************)
(* Payment-session lifecycle of the razorpay-server repository.            *)
(*                                                                         *)
(* The repository holds the same Express server in variants:               *)
(*   "QrBasic"     src/api/index.js (and, route for route the same,        *)
(*                 src/unnamed/part_000 lines 1-116): schema without       *)
(*                 paymentId, no amount validation;                        *)
(*   "QrPaymentId" src/unnamed/part_000 lines 117-273: schema with        *)
(*                 paymentId and a unique qrId, amount validation.         *)
(* The variable variant says which of them is running.                     *)
(*                                                                         *)
(* Every handler does at most one store operation, except create-payment, *)
(* which awaits the processor and then the store: it is two steps, and    *)
(* other requests interleave between them.                                 *)
(***************************************************************************)
EXTENDS Integers, Sequences, FiniteSets, TLC

\* ---------------------------------------------------------------- bounds
\* Artifacts (QR codes) the processor issues in one run.
MaxOrders == 1
\* Largest amount a client asks for.
MaxAmount == 1
\* Largest reading of Date.now().
MaxTime == 0
\* Sessions created, one request after the other, in a run that fills the history.
MaxHistory == 21
\* Create-payment requests in flight together in a run of concurrent creations.
MaxRace == 2
\* Largest reading of Date.now() in these two kinds of run.
MaxHistoryTime == 1

\* ------------------------------------------------------------- constants
Null == "null"
Variants == {"QrBasic", "QrPaymentId"}
\* Schema of part_000:143-149 has paymentId; that of api/index.js:27-32 has not.
HasPaymentId(v) == v = "QrPaymentId"
\* part_000:172 validates the amount; api/index.js:49-53 does not.
ValidatesAmount(v) == v = "QrPaymentId"
\* part_000:144 declares qrId unique; api/index.js:28 does not.
UniqueQrId(v) == v = "QrPaymentId"

\* .limit(20) of part_000:225; api/index.js:98 has no limit.
OrdersLimit == 20
HasLimit(v) == v = "QrPaymentId"

\* process.env.WEBHOOK_SECRET, and a key that is not it.
WebhookSecret == "whsec"
OtherSecret == "guess"

\* Identifiers the processor issues are 1..MaxOrders, in this order; UnknownQr
\* is an identifier it never issues to this server.
UnknownQr == MaxOrders + 1
QrIds == 1..UnknownQr
PaymentIds == {"pay_X9", "pay_Y7"}

\* req.body.amount: absent, or a number.
NoAmount == [given |-> FALSE, value |-> 0]
Amount(v) == [given |-> TRUE, value |-> v]
\* The amounts clients send: 1..MaxAmount, then 0, -1 and none.
AmountInputs == [i \in 1..MaxAmount |-> Amount(i)] \o <<Amount(0), Amount(0 - 1), NoAmount>>
\* JavaScript's !amount
Falsy(a) == ~a.given \/ a.value = 0
\* JavaScript's amount < 1 (undefined < 1 is false)
LessThanOne(a) == a.given /\ a.value < 1

\* ------------------------------------------------------- webhook payloads
CreditedEvent == "qr_code.credited"
\* "undefined": the body has no event.
Events == {CreditedEvent, "payment.captured", "undefined"}
\* Which nested objects the JSON body has:
\*   "full"       payload.qr_code.entity.id and payload.payment.entity.id
\*   "noPayload"  no payload
\*   "noQrCode"   payload without qr_code
\*   "noPayment"  payload.qr_code.entity.id, no payload.payment
Shapes == {"full", "noPayload", "noQrCode", "noPayment"}
HasQrEntity(shape) == shape \in {"full", "noPayment"}
HasPaymentEntity(shape) == shape = "full"

\* The bytes on the wire. ws counts insignificant whitespace: two bodies that
\* differ only in ws are different bytes and parse to the same JSON value.
\* An identifier the shape does not carry is NoQr or Null.
NoQr == UnknownQr + 1
RawBody(ws, event, shape, qrId, paymentId) ==
    [ws |-> ws, event |-> event, shape |-> shape, qrId |-> qrId, paymentId |-> paymentId]
RawBodies ==
    {RawBody(0, CreditedEvent, "full", q, p) : q \in QrIds, p \in PaymentIds}
    \cup {RawBody(1, CreditedEvent, "full", 1, "pay_X9")}
    \cup {RawBody(0, CreditedEvent, "noPayment", 1, Null)}
    \cup {RawBody(0, CreditedEvent, s, NoQr, Null) : s \in {"noPayload", "noQrCode"}}
    \cup {RawBody(0, "payment.captured", "full", 1, "pay_X9")}
    \cup {RawBody(0, "undefined", "noPayload", NoQr, Null)}

\* express.json(): req.body of the bytes (api/index.js:37-39 keeps the bytes
\* in req.rawBody).
JsonParse(raw) == [event |-> raw.event, shape |-> raw.shape, qrId |-> raw.qrId, paymentId |-> raw.paymentId]

\* The x-razorpay-signature header: absent, or a hex digest.
NoSignature == [present |-> FALSE, key |-> Null, msg |-> CHOOSE r \in RawBodies : TRUE]
\* crypto.createHmac('sha256', secret).update(rawBody).digest('hex'): a keyed
\* hash is a value only the same key and the same bytes give.
HmacSha256Hex(secret, rawBody) == [present |-> TRUE, key |-> secret, msg |-> rawBody]

\* ------------------------------------------------------------ the store
\* An Order document (api/index.js:27-32, part_000:143-149).
OrderDoc(qrId, amount, status, paymentId, createdAt) ==
    [qrId |-> qrId, amount |-> amount, status |-> status, paymentId |-> paymentId,
     createdAt |-> createdAt]

\* Index of the first document with this qrId, 0 when there is none.
IndexOf(coll, qrId) ==
    IF \E i \in 1..Len(coll) : coll[i].qrId = qrId
    THEN CHOOSE i \in 1..Len(coll) :
            /\ coll[i].qrId = qrId
            /\ \A j \in 1..(i - 1) : coll[j].qrId # qrId
    ELSE 0

\* Order.findOne({qrId})
Found(coll, qrId) == IndexOf(coll, qrId) # 0
FindOne(coll, qrId) == coll[IndexOf(coll, qrId)]

\* Mutant of SetFields: the document is replaced by the update, and the fields
\* the update does not give fall back to the schema's defaults.
SetFieldsReplacing(doc, update) ==
    [qrId |-> doc.qrId,
     amount |-> NoAmount,
     status |-> IF "status" \in DOMAIN update THEN update.status ELSE "PENDING",
     paymentId |-> IF "paymentId" \in DOMAIN update THEN update.paymentId ELSE Null,
     createdAt |-> doc.createdAt]

\* A document with the fields of update set ($set of the fields given).
SetFields(doc, update) ==
    [qrId |-> doc.qrId,
     amount |-> doc.amount,
     status |-> IF "status" \in DOMAIN update THEN update.status ELSE doc.status,
     paymentId |-> IF "paymentId" \in DOMAIN update THEN update.paymentId ELSE doc.paymentId,
     createdAt |-> doc.createdAt]

\* Mutant of FindOneAndUpdate: with {upsert: true}, a document is inserted when
\* none matches.
FindOneAndUpsert(coll, qrId, update) ==
    IF Found(coll, qrId)
    THEN [coll EXCEPT ![IndexOf(coll, qrId)] = SetFields(@, update)]
    ELSE Append(coll, SetFields([qrId |-> qrId, amount |-> NoAmount, status |-> "PENDING",
                                 paymentId |-> Null, createdAt |-> 0], update))

\* Mutant of FindOneAndUpdate: the updated document is saved as a new one.
FindOneAndInsert(coll, qrId, update) ==
    IF Found(coll, qrId)
    THEN Append(coll, SetFields(FindOne(coll, qrId), update))
    ELSE coll

\* Order.findOneAndUpdate({qrId}, update): one atomic store operation; the
\* first match is updated, and without a match nothing is written (no upsert).
FindOneAndUpdate(coll, qrId, update) ==
    IF Found(coll, qrId)
    THEN [coll EXCEPT ![IndexOf(coll, qrId)] = SetFields(@, update)]
    ELSE coll

\* Whether Order.create rejects the document: the unique index on qrId.
DuplicateKey(v, coll, qrId) == UniqueQrId(v) /\ Found(coll, qrId)

\* Mutant of Create: the amount is stored in paise, as it is sent to the processor.
CreateInPaise(coll, qrId, amount, time) ==
    Append(coll, [qrId |-> qrId, amount |-> [amount EXCEPT !.value = @ * 100],
                  status |-> "PENDING", paymentId |-> Null, createdAt |-> time])

\* Mutant of Create: the document is written twice.
CreateTwice(coll, qrId, amount, time) ==
    Append(Append(coll, [qrId |-> qrId, amount |-> amount, status |-> "PENDING",
                         paymentId |-> Null, createdAt |-> time]),
           [qrId |-> qrId, amount |-> amount, status |-> "PENDING",
            paymentId |-> Null, createdAt |-> time])

\* Order.create({qrId, amount, status: "PENDING"}): paymentId and createdAt
\* take the schema's defaults.
Create(coll, qrId, amount, time) ==
    Append(coll, OrderDoc(qrId, amount, "PENDING", Null, time))

\* Order.find().sort({createdAt: -1}): the documents, newest first. Of two
\* documents of one createdAt the store may return either first; here the one
\* inserted later comes first.
RECURSIVE InsertNewestFirst(_, _)
InsertNewestFirst(doc, sorted) ==
    IF sorted = <<>> THEN <<doc>>
    ELSE IF doc.createdAt >= Head(sorted).createdAt THEN <<doc>> \o sorted
    ELSE <<Head(sorted)>> \o InsertNewestFirst(doc, Tail(sorted))

RECURSIVE SortNewestFirst(_)
SortNewestFirst(coll) ==
    IF coll = <<>> THEN <<>>
    ELSE InsertNewestFirst(coll[Len(coll)], SortNewestFirst(SubSeq(coll, 1, Len(coll) - 1)))

\* .limit(n)
Limit(docs, n) == SubSeq(docs, 1, IF Len(docs) < n THEN Len(docs) ELSE n)

\* --------------------------------------------------- the webhook handler
\* Mutant of SignatureValid: the digest of the bytes is compared whatever key
\* made the signature.
SignatureValidAnyKey(rawBody, signature) ==
    signature.present /\ signature.msg = rawBody

\* digest === signature (api/index.js:109-112, part_000:238-242)
SignatureValid(rawBody, signature) ==
    HmacSha256Hex(WebhookSecret, rawBody) = signature

\* Mutant of IsCredited: a captured payment is handled as a credit too.
IsCreditedOrCaptured(event) == event \in {CreditedEvent, "payment.captured"}

\* if (event === 'qr_code.credited') (api/index.js:117, part_000:249)
IsCredited(event) == event = CreditedEvent

\* Whether reading the identifiers of a credited event throws a TypeError:
\* payload.qr_code.entity.id (api/index.js:118), and in part_000:250-258 also
\* payload.payment.entity.id.
ReadThrows(v, body) ==
    \/ ~HasQrEntity(body.shape)
    \/ HasPaymentId(v) /\ ~HasPaymentEntity(body.shape)

\* Mutant of SuccessUpdate: a status the schema's comment does not list.
SuccessUpdatePaid(v, body) ==
    IF HasPaymentId(v)
    THEN [status |-> "PAID", paymentId |-> body.paymentId]
    ELSE [status |-> "PAID"]

\* Mutant of SuccessUpdate: where the schema has paymentId, only the payment id
\* is written.
SuccessUpdateReferenceOnly(v, body) ==
    IF HasPaymentId(v)
    THEN [paymentId |-> body.paymentId]
    ELSE [status |-> "SUCCESS"]

\* The second argument of findOneAndUpdate (api/index.js:124, part_000:256-259).
SuccessUpdate(v, body) ==
    IF HasPaymentId(v)
    THEN [status |-> "SUCCESS", paymentId |-> body.paymentId]
    ELSE [status |-> "SUCCESS"]

\* What the handler answers: code 0 is no answer of the handler's, it threw
\* (a TypeError, or the store's rejection, outside any try).
Response(code, status, error, id, paymentId) ==
    [code |-> code, status |-> status, error |-> error, id |-> id, paymentId |-> paymentId]
Threw == Response(0, "threw", Null, NoQr, Null)

\* Whether the handler reaches its store update.
ReachesUpdate(v, rawBody, signature) ==
    /\ SignatureValid(rawBody, signature)
    /\ IsCredited(JsonParse(rawBody).event)
    /\ ~ReadThrows(v, JsonParse(rawBody))

\* app.post('/api/webhook'): the store it leaves and its answer. storeFails
\* says that the store rejects the update.
WebhookHandler(v, coll, rawBody, signature, storeFails) ==
    LET body == JsonParse(rawBody) IN
    IF SignatureValid(rawBody, signature)
    THEN IF IsCredited(body.event)
         THEN IF ReadThrows(v, body) \/ storeFails
              THEN [orders |-> coll, res |-> Threw]
              ELSE [orders |-> FindOneAndUpdate(coll, body.qrId, SuccessUpdate(v, body)),
                    res |-> Response(200, "ok", Null, NoQr, Null)]
         ELSE [orders |-> coll, res |-> Response(200, "ok", Null, NoQr, Null)]
    ELSE [orders |-> coll, res |-> Response(400, "invalid_signature", Null, NoQr, Null)]

\* Mutant of CheckStatusHandler: without the test of line 90, order.status of
\* null throws.
CheckStatusUnguarded(v, coll, id) ==
    IF ~Found(coll, id)
    THEN Threw
    ELSE Response(200, FindOne(coll, id).status, Null, NoQr,
                  IF HasPaymentId(v) THEN FindOne(coll, id).paymentId ELSE Null)

\* ----------------------------------------------- the check-status handler
\* app.get('/api/check-status/:id') (api/index.js:86-92, part_000:209-219)
CheckStatusHandler(v, coll, id) ==
    IF ~Found(coll, id)
    THEN Response(404, "NOT_FOUND", Null, NoQr, Null)
    ELSE Response(200, FindOne(coll, id).status, Null, NoQr,
                  IF HasPaymentId(v) THEN FindOne(coll, id).paymentId ELSE Null)

\* ----------------------------------------------------- the orders handler
\* app.get('/api/orders') (api/index.js:95-100, part_000:222-227): the array
\* it answers.
OrdersHandler(v, coll) ==
    IF HasLimit(v)
    THEN Limit(SortNewestFirst(coll), OrdersLimit)
    ELSE SortNewestFirst(coll)

\* ---------------------------------------------- the create-payment handler
\* error.message of what an awaited call rejected with. The processor's client
\* and the store's driver both report a lost connection by the message of the
\* network error.
ProcessorMessages == {"Bad request", "timed out"}
DuplicateMessage == "E11000 duplicate key"
StoreMessages == {DuplicateMessage, "timed out"}

\* Mutant of CatchResponse: the error is logged and the request answered as if
\* it had succeeded.
CatchResponseSwallowed(message) == Response(200, "PENDING", Null, NoQr, Null)

\* catch (error) { res.status(500).json({ error: error.message }) }
\* (api/index.js:79-82, part_000:201-204): one catch for both awaits.
CatchResponse(message) == Response(500, Null, message, NoQr, Null)

\* if (!amount || amount < 1) of part_000:172; api/index.js has no such test.
AmountRejected(v, amount) ==
    ValidatesAmount(v) /\ (Falsy(amount) \/ LessThanOne(amount))

\* ------------------------------------------------------------------ state
VARIABLES
    variant,    \* which variant of the server runs
    orders,     \* the Order collection, in insertion order
    issued,     \* how many artifacts the processor has created for this server
    pending,    \* create-payment requests between qrCode.create and Order.create
    now,        \* the latest reading of Date.now()
    last,       \* the request answered last, its answer, and the store before it
    acked       \* qrIds of credited events acknowledged while their session was stored

vars == <<variant, orders, issued, pending, now, last, acked>>

NoRaw == CHOOSE r \in RawBodies : TRUE
\* The record of an answered request. after says what was answered just before:
\*   of a webhook, the same delivery (same bytes, same signature), acknowledged;
\*   of a check-status, the create-payment that returned this id;
\*   of a create-payment, a credited event for its artifact was acknowledged
\*   while the request was between qrCode.create and Order.create.
\* fault names the collaborator whose call was rejected during the request
\* ("none", "processor", "store") and thrown the message of the rejection;
\* list is the array a GET /api/orders answered.
Answered(op, amount, id, rawBody, signature, storeFails, res, pre, after) ==
    [op |-> op, amount |-> amount, id |-> id, raw |-> rawBody, sig |-> signature,
     storeFails |-> storeFails, res |-> res, pre |-> pre, after |-> after,
     fault |-> IF storeFails THEN "store" ELSE "none", thrown |-> Null, list |-> <<>>]

Init ==
    /\ variant \in Variants
    /\ orders = <<>>
    /\ issued = 0
    /\ pending = {}
    /\ now = 0
    /\ last = Answered("none", NoAmount, NoQr, NoRaw, NoSignature, FALSE, Threw, <<>>, FALSE)
    /\ acked = {}

\* POST /api/create-payment up to the end of its await of razorpay.qrCode.create
\* (api/index.js:49-63, part_000:167-186). The processor, an external service,
\* may refuse any request; an artifact it creates gets the next identifier.
CreatePaymentStartWithin(cap, amount, processorFails) ==
    /\ UNCHANGED <<variant, orders, now, acked>>
    /\ IF AmountRejected(variant, amount)
       THEN /\ last' = Answered("create", amount, NoQr, NoRaw, NoSignature, FALSE,
                                Response(400, Null, "Invalid amount", NoQr, Null), orders, FALSE)
            /\ UNCHANGED <<issued, pending>>
       ELSE IF processorFails
       THEN /\ \E m \in ProcessorMessages :
                  last' = [Answered("create", amount, NoQr, NoRaw, NoSignature, FALSE,
                                    CatchResponse(m), orders, FALSE)
                           EXCEPT !.fault = "processor", !.thrown = m]
            /\ UNCHANGED <<issued, pending>>
       ELSE /\ issued < cap
            /\ issued' = issued + 1
            /\ pending' = pending \cup {[qrId |-> issued + 1, amount |-> amount, orphan |-> FALSE]}
            /\ UNCHANGED last

\* The same in a run of at most MaxOrders artifacts.
CreatePaymentStart(amount, processorFails) ==
    CreatePaymentStartWithin(MaxOrders, amount, processorFails)

\* The rest of the handler: Order.create and the answer, or the catch
\* (api/index.js:66-82, part_000:189-204). createdAt is Date.now() at the
\* write, which is not before any earlier reading.
CreatePaymentFinish(p, storeFails, time) ==
    /\ p \in pending
    /\ pending' = pending \ {p}
    /\ UNCHANGED <<variant, issued, acked>>
    /\ IF storeFails \/ DuplicateKey(variant, orders, p.qrId)
       THEN /\ time = now
            /\ \E m \in (IF storeFails THEN StoreMessages ELSE {DuplicateMessage}) :
                  last' = [Answered("create", p.amount, p.qrId, NoRaw, NoSignature, storeFails,
                                    CatchResponse(m), orders, p.orphan)
                           EXCEPT !.fault = "store", !.thrown = m]
            /\ UNCHANGED <<orders, now>>
       ELSE /\ time >= now
            /\ now' = time
            /\ orders' = Create(orders, p.qrId, p.amount, time)
            /\ last' = Answered("create", p.amount, p.qrId, NoRaw, NoSignature, FALSE,
                                Response(200, "PENDING", Null, p.qrId, Null), orders, p.orphan)

\* GET /api/check-status/:id
CheckStatus(id) ==
    /\ last' = Answered("check", NoAmount, id, NoRaw, NoSignature, FALSE,
                        CheckStatusHandler(variant, orders, id), orders,
                        last.op = "create" /\ last.res.code = 200 /\ last.id = id)
    /\ UNCHANGED <<variant, orders, issued, pending, now, acked>>

\* GET /api/orders
Orders ==
    /\ last' = [Answered("orders", NoAmount, NoQr, NoRaw, NoSignature, FALSE,
                          Response(200, Null, Null, NoQr, Null), orders, FALSE)
                EXCEPT !.list = OrdersHandler(variant, orders)]
    /\ UNCHANGED <<variant, orders, issued, pending, now, acked>>

\* Bytes other than rawBody: with other whitespace when the model has them,
\* else with other content.
Altered(rawBody) ==
    LET r == [rawBody EXCEPT !.ws = 1 - @] IN
    IF r \in RawBodies THEN r ELSE CHOOSE x \in RawBodies : x # rawBody

\* The signatures a delivery of these bytes may carry: none, the processor's,
\* one made with another key, and the processor's for bytes that were altered
\* after signing.
Signatures(rawBody) ==
    {NoSignature, HmacSha256Hex(WebhookSecret, rawBody), HmacSha256Hex(OtherSecret, rawBody),
     HmacSha256Hex(WebhookSecret, Altered(rawBody))}

\* POST /api/webhook (api/index.js:103-131, part_000:230-271)
Webhook(rawBody, signature, storeFails) ==
    LET out == WebhookHandler(variant, orders, rawBody, signature, storeFails)
        qrId == JsonParse(rawBody).qrId
        applied == ReachesUpdate(variant, rawBody, signature) /\ out.res.code = 200
    IN  /\ storeFails => ReachesUpdate(variant, rawBody, signature)
        /\ orders' = out.orders
        /\ last' = Answered("webhook", NoAmount, NoQr, rawBody, signature, storeFails,
                            out.res, orders,
                            /\ last.op = "webhook" /\ last.raw = rawBody
                            /\ last.sig = signature /\ last.res.code = 200)
        /\ acked' = IF applied /\ Found(orders, qrId) THEN acked \cup {qrId} ELSE acked
        /\ pending' = {IF applied /\ p.qrId = qrId /\ ~Found(orders, qrId)
                       THEN [p EXCEPT !.orphan = TRUE] ELSE p : p \in pending}
        /\ UNCHANGED <<variant, issued, now>>

\* The requests of a run in which the processor and the store answer every
\* call: the faults are FaultStep's.
Next ==
    \/ \E i \in DOMAIN AmountInputs : CreatePaymentStart(AmountInputs[i], FALSE)
    \/ \E p \in pending, time \in 0..MaxTime : CreatePaymentFinish(p, FALSE, time)
    \/ \E id \in QrIds : CheckStatus(id)
    \/ Orders
    \/ \E rawBody \in RawBodies :
          \E signature \in Signatures(rawBody) : Webhook(rawBody, signature, FALSE)

Spec == Init /\ [][Next]_vars

\* A request during which the processor refuses the artifact, or the store
\* rejects the write.
FaultStep ==
    \/ \E i \in DOMAIN AmountInputs : CreatePaymentStart(AmountInputs[i], TRUE)
    \/ \E p \in pending : CreatePaymentFinish(p, TRUE, now)
    \/ \E rawBody \in RawBodies :
          \E signature \in Signatures(rawBody) : Webhook(rawBody, signature, TRUE)

NextFaults == Next \/ FaultStep

\* The same server beside a processor and a store that may fail.
SpecFaults == Init /\ [][NextFaults]_vars

\* A run that fills the history: create-payment requests of one valid amount,
\* each answered before the next begins, and listings.
NextHistory ==
    \/ pending = {} /\ CreatePaymentStartWithin(MaxHistory, Amount(MaxAmount), FALSE)
    \/ \E p \in pending, time \in 0..MaxHistoryTime : CreatePaymentFinish(p, FALSE, time)
    \/ Orders

SpecHistory == Init /\ [][NextHistory]_vars

\* A run of concurrent creations: up to MaxRace create-payment requests, of any
\* amount, are in flight together and finish in any order, beside polls and
\* listings.
NextRace ==
    \/ \E i \in DOMAIN AmountInputs :
          CreatePaymentStartWithin(MaxRace, AmountInputs[i], FALSE)
    \/ \E p \in pending, time \in 0..MaxHistoryTime : CreatePaymentFinish(p, FALSE, time)
    \/ \E id \in 1..MaxRace : CheckStatus(id)
    \/ Orders

SpecRace == Init /\ [][NextRace]_vars

\* ------------------------------------------------------- words for claims
LastWebhook == last.op = "webhook"
\* The delivery answered last carries the processor's signature of its bytes.
LastSigned == last.sig = HmacSha256Hex(WebhookSecret, last.raw)
\* ... and is a complete 'qr_code.credited' event.
LastCredited ==
    LastWebhook /\ LastSigned /\ last.raw.event = CreditedEvent /\ last.raw.shape = "full"
Acknowledged == last.res.code = 200 /\ last.res.status = "ok"
StoreUntouched == orders = last.pre

C2_CreditedMarksSuccess ==
    /\ (/\ LastCredited /\ Acknowledged
        /\ Found(last.pre, last.raw.qrId)
        /\ FindOne(last.pre, last.raw.qrId).status = "PENDING")
       => /\ FindOne(orders, last.raw.qrId).status = "SUCCESS"
          /\ FindOne(orders, last.raw.qrId).paymentId = last.raw.paymentId
    /\ (last.op = "check" /\ last.id \in acked) => last.res.status = "SUCCESS"

\* C3: the same correctly signed 'qr_code.credited' webhook delivered twice for
\* a stored session: the second delivery leaves the store as the first left it
\* (status SUCCESS, settlementReference as written), and both deliveries are
\* acknowledged. (last.after: the delivery just before was the same one, and
\* was acknowledged.)
C3_DuplicateDeliveryIsNoOp ==
    (LastCredited /\ last.after /\ Found(last.pre, last.raw.qrId))
    => /\ Acknowledged
       /\ StoreUntouched
       /\ FindOne(orders, last.raw.qrId).status = "SUCCESS"

\* The second of two deliveries for a stored session, in the variant that
\* records the payment id.
C3_Witness ==
    /\ LastCredited /\ last.after /\ Acknowledged
    /\ Found(orders, last.raw.qrId)
    /\ FindOne(orders, last.raw.qrId).paymentId = last.raw.paymentId

\* C4: once a session is SUCCESS, no later correctly signed 'qr_code.credited'
\* webhook for its artifact alters its settlementReference, whatever payment id
\* the webhook carries.
C4_FirstSettlementReferenceStays ==
    LastWebhook =>
        \A i \in 1..Len(last.pre) :
            last.pre[i].status = "SUCCESS" => orders[i].paymentId = last.pre[i].paymentId

Statuses == {"PENDING", "SUCCESS", "FAILED"}

\* C5: every session is created PENDING, a status is always one of PENDING,
\* SUCCESS, FAILED, the only change of a status in any step is PENDING to
\* SUCCESS, and a session that is SUCCESS stays SUCCESS.
C5_StatusMonotone ==
    /\ [](\A i \in 1..Len(orders) : orders[i].status \in Statuses)
    /\ [][/\ Len(orders') >= Len(orders)
          /\ \A i \in 1..Len(orders') :
                IF i > Len(orders)
                THEN orders'[i].status = "PENDING"
                ELSE \/ orders'[i].status = orders[i].status
                     \/ orders[i].status = "PENDING" /\ orders'[i].status = "SUCCESS"]_vars

\* A credited webhook handled for a session that was SUCCESS already.
C5_Witness ==
    /\ LastCredited /\ Acknowledged
    /\ Found(last.pre, last.raw.qrId)
    /\ FindOne(last.pre, last.raw.qrId).status = "SUCCESS"
    /\ FindOne(orders, last.raw.qrId).status = "SUCCESS"

\* C6: a correctly signed 'qr_code.credited' webhook whose artifact id matches
\* no stored session (an artifact whose create-payment has not written its
\* session yet, or one this server never created) creates and changes no
\* session and is acknowledged; a session written afterwards for that artifact
\* starts PENDING. (last.after of a create-payment: such an event was
\* acknowledged while the request was in flight.)
C6_OrphanEventDropped ==
    /\ (LastCredited /\ ~Found(last.pre, last.raw.qrId))
       => (Acknowledged /\ StoreUntouched)
    /\ (last.op = "create" /\ last.res.code = 200 /\ last.after)
       => /\ ~Found(last.pre, last.id)
          /\ Found(orders, last.id)
          /\ FindOne(orders, last.id).status = "PENDING"
          /\ FindOne(orders, last.id).paymentId = Null

\* A session written after the credited event for its artifact was dropped.
C6_Witness ==
    /\ last.op = "create" /\ last.res.code = 200 /\ last.after
    /\ Len(orders) = Len(last.pre) + 1

\* C7: a correctly signed webhook whose event is not 'qr_code.credited' is
\* answered 200 {status: 'ok'} and leaves the store as it was.
C7_OtherEventsAcknowledged ==
    (LastWebhook /\ LastSigned /\ last.raw.event # CreditedEvent)
    => (Acknowledged /\ StoreUntouched)

\* Another event that names a stored PENDING session.
C7_Witness ==
    /\ LastWebhook /\ LastSigned /\ last.raw.event = "payment.captured"
    /\ Found(orders, last.raw.qrId)
    /\ FindOne(orders, last.raw.qrId).status = "PENDING"
    /\ Acknowledged

\* C8: a correctly signed 'qr_code.credited' webhook whose payload lacks a
\* nested object (no payload, no qr_code, no payment) is ignored: the handler
\* does not throw, the store is as it was, and the call is acknowledged.
C8_IncompleteEventIgnored ==
    (/\ LastWebhook /\ LastSigned
     /\ last.raw.event = CreditedEvent /\ last.raw.shape # "full")
    => (Acknowledged /\ StoreUntouched)

\* C9: a create-payment with a positive amount that succeeds and returns id Q
\* leaves a session with artifactId Q, that amount and status PENDING, and a
\* check-status of Q answered right after it answers PENDING. (last.after of a
\* check-status: the request answered just before was the create-payment that
\* returned this id.)
C9_CreateThenStatusPending ==
    /\ (/\ last.op = "create" /\ last.res.code = 200
        /\ last.amount.given /\ last.amount.value >= 1)
       => /\ last.res.status = "PENDING"
          /\ Found(orders, last.res.id)
          /\ FindOne(orders, last.res.id).amount = last.amount
          /\ FindOne(orders, last.res.id).status = "PENDING"
    /\ (last.op = "check" /\ last.after)
       => (last.res.code = 200 /\ last.res.status = "PENDING")

\* The check-status right after a create-payment with a positive amount.
C9_Witness ==
    /\ last.op = "check" /\ last.after
    /\ Found(orders, last.id)
    /\ FindOne(orders, last.id).amount.given
    /\ FindOne(orders, last.id).amount.value >= 1
    /\ last.res.status = "PENDING"

\* C10: check-status of an id that is not stored answers 404 'NOT_FOUND' and
\* does not throw, and a check-status, of a stored id or not, leaves the store
\* as it was.
C10_UnknownIdNotFound ==
    last.op = "check" =>
        /\ StoreUntouched
        /\ last.res.code # 0
        /\ ~Found(last.pre, last.id)
           => (last.res.code = 404 /\ last.res.status = "NOT_FOUND")

\* A check-status of an id that is not stored, beside a stored session.
C10_Witness ==
    /\ last.op = "check"
    /\ ~Found(orders, last.id)
    /\ Len(orders) > 0
    /\ last.res.code = 404

\* C11: GET /api/orders answers the sessions in non-increasing createdAt order,
\* and however many are stored it answers no more of them than the limit.
C11_OrdersNewestFirstWithinLimit ==
    last.op = "orders" =>
        /\ \A i \in 1..(Len(last.list) - 1) :
              last.list[i].createdAt >= last.list[i + 1].createdAt
        /\ Len(last.list) <= OrdersLimit

\* C12: when the processor refuses the artifact during create-payment, the
\* store stays as it was and the request is answered with an error that
\* carries the processor's message, never with a success.
C12_ProcessorFailureCreatesNothing ==
    (last.op = "create" /\ last.fault = "processor") =>
        /\ StoreUntouched
        /\ last.res.code >= 400
        /\ last.res.error = last.thrown
        /\ last.res.status # "PENDING"

\* The processor refuses a request for a valid amount while a session is stored.
C12_Witness ==
    /\ last.op = "create" /\ last.fault = "processor"
    /\ last.thrown = "Bad request"
    /\ last.amount = Amount(1)
    /\ Len(orders) = 1

\* C13: when the store rejects the write of a create-payment (of a valid
\* amount) after the artifact was created, the answer is not one the handler
\* gives when the creation of the artifact itself fails.
C13_PartialFailureDistinguishable ==
    (last.op = "create" /\ last.fault = "store" /\ last.amount.value > 0) =>
        \A m \in ProcessorMessages : last.res # CatchResponse(m)

\* C14: no two stored sessions have the same artifact id, whatever the order in
\* which concurrent create-payment requests finish.
C14_OneSessionPerArtifact ==
    \A i, j \in 1..Len(orders) : orders[i].qrId = orders[j].qrId => i = j

\* Two requests were in flight together and the later one was stored first.
C14_Witness ==
    /\ Len(orders) = 2
    /\ orders[1].qrId = 2 /\ orders[2].qrId = 1
    /\ pending = {}

\* C15: a create-payment whose amount is missing, zero or negative creates no
\* artifact at the processor and no session: every request holding an artifact
\* and every stored session has a positive amount.
C15_InvalidAmountCreatesNothing ==
    /\ \A p \in pending : p.amount.given /\ p.amount.value > 0
    /\ \A i \in 1..Len(orders) : orders[i].amount.given /\ orders[i].amount.value > 0

\* C16: a webhook call whose signature was verified (and whose event, when it
\* is a credit, is complete) is answered 2xx, also when the store rejects the
\* update.
C16_VerifiedWebhookAnswered2xx ==
    (/\ LastWebhook /\ LastSigned
     /\ last.raw.event = CreditedEvent => last.raw.shape = "full")
    => last.res.code \in 200..299

\* C17: with correctly signed credited deliveries for one stored artifact
\* interleaved in any order with polls, no update is lost: after an acknowledged
\* delivery the session is SUCCESS with a payment id, a payment id is only ever
\* written from the delivery being processed, a poll answers the stored status,
\* PENDING or SUCCESS, and a SUCCESS session never goes back.
C17_ConcurrentDeliveriesLoseNothing ==
    /\ [](/\ (LastCredited /\ Acknowledged /\ Found(last.pre, last.raw.qrId)) =>
                /\ FindOne(orders, last.raw.qrId).status = "SUCCESS"
                /\ FindOne(orders, last.raw.qrId).paymentId \in PaymentIds
          /\ (last.op = "check" /\ Found(last.pre, last.id)) =>
                /\ last.res.status \in {"PENDING", "SUCCESS"}
                /\ last.res.status = FindOne(orders, last.id).status)
    /\ [][\A i \in 1..Len(orders) :
            /\ i <= Len(orders')
            /\ orders[i].status = "SUCCESS" => orders'[i].status = "SUCCESS"
            /\ orders'[i].paymentId # orders[i].paymentId =>
                  /\ last'.op = "webhook"
                  /\ last'.raw.qrId = orders[i].qrId
                  /\ orders'[i].paymentId = last'.raw.paymentId]_vars

\* C18: the status of a session changes only to SUCCESS and only by a webhook
\* call that carries the processor's signature of its bytes, is a
\* 'qr_code.credited' event and names the session's artifact; a session is
\* stored as PENDING. So no create-payment, check-status or orders request and
\* no rejected webhook changes a status.
C18_OnlyCreditedWebhookChangesStatus ==
    [][/\ Len(orders') >= Len(orders)
       /\ \A i \in 1..Len(orders) :
             orders'[i].status # orders[i].status =>
                /\ last'.op = "webhook"
                /\ last'.sig = HmacSha256Hex(WebhookSecret, last'.raw)
                /\ last'.raw.event = CreditedEvent
                /\ last'.raw.qrId = orders[i].qrId
                /\ orders'[i].status = "SUCCESS"
       /\ \A i \in (Len(orders) + 1)..Len(orders') : orders'[i].status = "PENDING"]_vars

\* A signed credited event has just turned a PENDING session into SUCCESS.
C18_Witness ==
    /\ LastWebhook /\ LastSigned /\ last.raw.event = CreditedEvent
    /\ Found(last.pre, last.raw.qrId)
    /\ FindOne(last.pre, last.raw.qrId).status = "PENDING"
    /\ FindOne(orders, last.raw.qrId).status = "SUCCESS"

\* C19: a stored session stays stored, and its artifact id, amount and
\* createdAt stay the values written at creation.
C19_StoredSessionsKeepIdentity ==
    [][/\ Len(orders') >= Len(orders)
       /\ \A i \in 1..Len(orders) :
             /\ orders'[i].qrId = orders[i].qrId
             /\ orders'[i].amount = orders[i].amount
             /\ orders'[i].createdAt = orders[i].createdAt]_vars

\* A webhook has rewritten a session of amount 1.
C19_Witness ==
    /\ LastWebhook /\ orders # last.pre
    /\ Len(orders) = Len(last.pre)
    /\ \E i \in 1..Len(orders) :
          /\ orders[i] # last.pre[i]
          /\ orders[i].amount = Amount(1)

\* C20: a PENDING session has no settlement reference, and a session with a
\* settlement reference is SUCCESS.
C20_ReferenceOnlyWithSuccess ==
    \A i \in 1..Len(orders) :
        /\ orders[i].status = "PENDING" => orders[i].paymentId = Null
        /\ orders[i].paymentId # Null => orders[i].status = "SUCCESS"

\* A session of the variant that stores payment ids is SUCCESS with one.
C20_Witness ==
    /\ HasPaymentId(variant)
    /\ \E i \in 1..Len(orders) :
          orders[i].status = "SUCCESS" /\ orders[i].paymentId = "pay_Y7"

====
